---- MODULE Spec2Model ----
(***************************************************************************)
(* The filter-and-aggregate pipeline of the four sales dashboards:          *)
(*   app.py                      (RunApp)                                   *)
(*   fashion_dashboard.py        (RunFashion)                               *)
(*   dashboard.py, lines 1-118   (RunDashboard)                             *)
(*   dashboard.py, lines 121-332 (RunBrand, "fashion brand.py")             *)
(* Every script is one top-to-bottom run over the loaded table and the      *)
(* current widget values; a step of the model is one such run.              *)
(*                                                                         *)
(* Encoding.  A cell that pandas holds as NaN/NaT is the empty sequence,    *)
(* a present numeric or date cell is a one-element sequence.  A timestamp   *)
(* is a number of ticks, TicksPerDay ticks to a calendar day, so that       *)
(* day*TicksPerDay is midnight of that day.  A missing categorical cell is  *)
(* the key NaNKey.                                                          *)
(***************************************************************************)
EXTENDS Integers, Sequences, FiniteSets, TLC

VARIABLES data, inputs, out

vars == <<data, inputs, out>>

\* ------------------------------------------------------------------ bounds
MaxRows == 3
MaxFilterRows == 2
MaxDay == 2
MaxEdited == 1
MaxTopN == 2
TicksPerDay == 2

\* ------------------------------------------------------- program constants
SliderMin == 1
SliderMax == 20
SliderDefault == 5
FixedTop == 5

NaN == <<>>
NaT == <<>>
NaNKey == "nan"
All == "All"

platform_options == <<"Amazon", "Flipkart", "Shopify">>

AppCancelSet == {"Return", "Cancel"}
FashionCancelSet == {"Cancelled", "Returned"}
DashboardCancelSet == {"Returned", "Cancelled"}

\* The order Python's sorted() and pandas' sorted group keys give the
\* strings of the model (code-point order).
KeyOrder ==
  <<"Amazon", "C1", "C2", "Flipkart", "K1", "K2", "Myntra",
    "P1", "P2", "P3", "S1", "S2", "Shopify">>

Range(s) == {s[i] : i \in DOMAIN s}

Min2(a, b) == IF a <= b THEN a ELSE b

Max2(a, b) == IF a >= b THEN a ELSE b

\* ------------------------------------------------------------ conversions
\* pd.to_datetime(<datetime.date>): midnight of that day.
ToDatetime(d) == d * TicksPerDay

\* st.date_input turns a Timestamp default into its calendar date.
DateOf(ts) == ts \div TicksPerDay

\* numeric cell as pandas' sum sees it (skipna)
Num(x) == IF x = NaN THEN 0 ELSE x[1]

\* ----------------------------------------------------------- column helpers
RECURSIVE SumField(_, _)
SumField(rows, f) ==
  IF rows = <<>> THEN 0
  ELSE Num(Head(rows)[f]) + SumField(Tail(rows), f)

Column(rows, f) == {rows[i][f] : i \in DOMAIN rows}

\* Series.nunique() of an identifier column (Order_ID, Customer_ID)
Nunique(rows, f) == Cardinality(Column(rows, f))

\* Series.nunique() of a categorical column: a missing cell is not counted
NuniqueKeys(rows, f) == Cardinality(Column(rows, f) \ {NaNKey})

\* Series.unique() of a categorical column (keeps the missing key)
Unique(rows, f) == Column(rows, f)

ValidTs(rows) == {rows[i].Date[1] : i \in {j \in DOMAIN rows : rows[j].Date # NaT}}

SetMin(S) == CHOOSE x \in S : \A y \in S : x <= y

SetMax(S) == CHOOSE x \in S : \A y \in S : x >= y

\* data['Date'].min() / .max() handed to st.date_input as the default pair
DefaultRange(rows) ==
  <<DateOf(SetMin(ValidTs(rows))), DateOf(SetMax(ValidTs(rows)))>>

\* sorted(data[f].unique().tolist()) raises TypeError when the column mixes
\* strings with a missing (float NaN) cell; a column of NaN only sorts.
SortedFails(rows, f) == NaNKey \in Unique(rows, f) /\ Unique(rows, f) # {NaNKey}

SidebarFails(rows) ==
  \/ SortedFails(rows, "Platform")
  \/ SortedFails(rows, "State")
  \/ SortedFails(rows, "City")
  \/ SortedFails(rows, "Product")

\* ["All"] + the values of the column: what a multiselect offers
Options(rows, f) == {All} \cup Unique(rows, f)

\* ---------------------------------------------------------------- filtering
\* (df['Date'] >= start) & (df['Date'] <= end): a comparison with NaT is False
DateMask(rows, start, end) ==
  SelectSeq(rows, LAMBDA r : /\ r.Date # NaT
                             /\ r.Date[1] >= start
                             /\ r.Date[1] <= end)

\* if "All" not in selected: df = df[df[f].isin(selected)]
IsinStep(rows, f, selected) ==
  IF All \notin selected
    THEN SelectSeq(rows, LAMBDA r : r[f] \in selected)
    ELSE rows

\* app.py and the first script of dashboard.py: date_range[0], date_range[1];
\* a one-element tuple has no [1]
IndexedDates(dr) ==
  IF Len(dr) < 2 THEN [error |-> "IndexError", start |-> 0, end |-> 0]
  ELSE [error |-> "", start |-> ToDatetime(dr[1]), end |-> ToDatetime(dr[2])]

\* fashion_dashboard.py: a two-element list/tuple is unpacked, anything else
\* is used whole for both ends.  A one-element tuple then becomes a
\* DatetimeIndex of length 1, and comparing the Date column with it raises
\* ValueError ("Lengths must match") unless the table has exactly one row,
\* which is then compared with that one date.
UnpackedDates(dr, nrows) ==
  IF Len(dr) = 2
    THEN [error |-> "", start |-> ToDatetime(dr[1]), end |-> ToDatetime(dr[2])]
  ELSE IF nrows = 1
    THEN [error |-> "", start |-> ToDatetime(dr[1]), end |-> ToDatetime(dr[1])]
  ELSE [error |-> "ValueError", start |-> 0, end |-> 0]

\* the four "All" blocks that follow the date mask in app.py,
\* fashion_dashboard.py and the second script of dashboard.py
filtered_data(rows, start, end, in) ==
  IsinStep(
    IsinStep(
      IsinStep(
        IsinStep(DateMask(rows, start, end), "Platform", in.selected_platform),
        "State", in.selected_state),
      "City", in.selected_city),
    "Product", in.selected_product)

\* dashboard.py, first script
platform_filter(sidebar) ==
  IF sidebar = All THEN Range(platform_options) ELSE {sidebar}

multiselect_with_all(selected, options) ==
  IF All \in selected \/ selected = {} THEN options ELSE selected

filtered_df(rows, start, end, sidebar, in) ==
  LET pf == platform_filter(sidebar)
      st == multiselect_with_all(in.selected_state, Unique(rows, "State"))
      ct == multiselect_with_all(in.selected_city, Unique(rows, "City"))
      pr == multiselect_with_all(in.selected_product, Unique(rows, "Product"))
  IN SelectSeq(rows, LAMBDA r : /\ r.Date # NaT
                                /\ r.Date[1] >= start
                                /\ r.Date[1] <= end
                                /\ r.Platform \in pf
                                /\ r.State \in st
                                /\ r.City \in ct
                                /\ r.Product \in pr)

\* ------------------------------------------------------------------- KPIs
\* a quotient is kept as numerator and denominator
Quot(n, d) == [num |-> n, den |-> d]

\* aov = total_revenue / total_orders if total_orders else 0
AovPerOrder(view) ==
  IF Nunique(view, "Order_ID") # 0
    THEN Quot(SumField(view, "Revenue"), Nunique(view, "Order_ID"))
    ELSE Quot(0, 1)

\* aov = filtered_df["Revenue"].sum() / max(len(filtered_df), 1)
AovPerRow(view) == Quot(SumField(view, "Revenue"), Max2(Len(view), 1))

StatusRows(view, statuses) ==
  SelectSeq(view, LAMBDA r : r.Delivery_Status \in statuses)

\* app.py: filtered_data[...isin([...])]['Order_ID'].nunique()
CancelReturnOrders(view, statuses) == Nunique(StatusRows(view, statuses), "Order_ID")

\* fashion_dashboard.py: .isin([...]).sum();  dashboard.py: [...].shape[0]
CancelReturnRows(view, statuses) == Len(StatusRows(view, statuses))

\* --------------------------------------------------------------- grouping
\* the timestamps of the model in chronological order, as date cells
TsOrder == [i \in 1..((MaxDay + 2) * TicksPerDay) |-> <<i>>]

\* the (Platform, SKU) pairs in the lexicographic order of a two-key groupby
PairOrder ==
  [i \in 1..(Len(KeyOrder) * Len(KeyOrder)) |->
     <<KeyOrder[((i - 1) \div Len(KeyOrder)) + 1],
       KeyOrder[((i - 1) % Len(KeyOrder)) + 1]>>]

\* the group key of a row: the cell of the one group-by column, or the
\* tuple of the cells of several
KeyAt(r, bys) == IF Len(bys) = 1 THEN r[bys[1]] ELSE <<r[bys[1]], r[bys[2]]>>

\* df.groupby(bys): one group per key value present, in sorted key order;
\* rows whose key is missing belong to no group (dropna=True)
GroupKeys(view, bys, order) ==
  SelectSeq(order, LAMBDA k : \E i \in DOMAIN view : KeyAt(view[i], bys) = k)

\* df.groupby(bys)[f].sum()
GroupSumBy(view, bys, order, f) ==
  LET ks == GroupKeys(view, bys, order)
  IN [i \in 1..Len(ks) |->
        [key |-> ks[i],
         sum |-> SumField(SelectSeq(view, LAMBDA r : KeyAt(r, bys) = ks[i]), f)]]

GroupSum(view, by, f) == GroupSumBy(view, <<by>>, KeyOrder, f)

TrendSum(view, f) == GroupSumBy(view, <<"Date">>, TsOrder, f)

CrossSum(view, byA, byB, f) == GroupSumBy(view, <<byA, byB>>, PairOrder, f)

\* ---------------------------------------------------------------- ranking
Perms(n) == {p \in [1..n -> 1..n] : \A i, j \in 1..n : i # j => p[i] # p[j]}

Reorder(g, p) == [i \in 1..Len(g) |-> g[p[i]]]

\* the same groups in rising order of their sums
SortValuesAsc(g) ==
  {Reorder(g, p) : p \in {q \in Perms(Len(g)) :
      \A i, j \in 1..Len(g) : i < j => g[q[i]].sum <= g[q[j]].sum}}

\* Series.sort_values(ascending=False): the default kind is quicksort, which
\* is not stable, so groups with equal sums may come out in any order
SortValuesDesc(g) ==
  {Reorder(g, p) : p \in {q \in Perms(Len(g)) :
      \A i, j \in 1..Len(g) : i < j => g[q[i]].sum >= g[q[j]].sum}}

\* .head(n)
HeadN(s, n) == SubSeq(s, 1, Min2(n, Len(s)))

\* Series.nlargest(n), keep='first': descending, equal sums in the order of
\* the grouped series
Nlargest(g, n) ==
  LET p == CHOOSE q \in Perms(Len(g)) :
             \A i, j \in 1..Len(g) : i < j =>
                \/ g[q[i]].sum > g[q[j]].sum
                \/ g[q[i]].sum = g[q[j]].sum /\ q[i] < q[j]
  IN HeadN(Reorder(g, p), n)

\* groupby(by)[f].sum().sort_values(ascending=False).head(n)
TopN(view, by, f, n) == {HeadN(s, n) : s \in SortValuesDesc(GroupSum(view, by, f))}

Chart(name, by, f, groups) == [name |-> name, by |-> by, field |-> f, groups |-> groups]

Ranking(name, by, f, n, rows) == [name |-> name, by |-> by, field |-> f, n |-> n, rows |-> rows]

\* ----------------------------------------------------------------- exports
\* The identifier columns Order_ID and Customer_ID are numbers; customer
\* names and payment methods sort as NameOrder and PaymentOrder.
NameOrder == <<"N1", "N2">>

PaymentOrder == <<"COD", "UPI">>

RECURSIVE SortedIds(_)
SortedIds(S) ==
  IF S = {} THEN <<>>
  ELSE <<SetMin(S)>> \o SortedIds(S \ {SetMin(S)})

\* the pairs <<a, b>> of two sorted key lists, in lexicographic order
Cross(A, B) ==
  [i \in 1..(Len(A) * Len(B)) |->
     <<A[((i - 1) \div Len(B)) + 1], B[((i - 1) % Len(B)) + 1]>>]

\* 'Payment_Method' in filtered_data.columns, asked of a view with rows
HasColumn(view, f) == f \in DOMAIN view[1]

\* convert_df_to_excel(df) behind a download button: the sheet is the frame
Export(name, rows) == [name |-> name, rows |-> rows]

\* filtered_data.groupby('Customer_ID')
\*   .agg({'Order_ID':'nunique','Revenue':'sum'}).reset_index()
CustomerAgg(view) ==
  LET ids == SortedIds(Column(view, "Customer_ID"))
  IN [i \in 1..Len(ids) |->
        LET g == SelectSeq(view, LAMBDA r : r.Customer_ID = ids[i])
        IN [Customer_ID |-> ids[i],
            Order_ID |-> Nunique(g, "Order_ID"),
            Revenue |-> SumField(g, "Revenue")]]

\* the customers with at least one distinct order
df_loyal_from_one(view) == SelectSeq(CustomerAgg(view), LAMBDA g : g.Order_ID >= 1)

\* fashion_dashboard.py: df_loyal[df_loyal['Order_ID'] > 1]
df_loyal(view) == SelectSeq(CustomerAgg(view), LAMBDA g : g.Order_ID > 1)

\* fashion_dashboard.py: df_one_timer[df_one_timer['Order_ID'] == 1]
df_one_timer(view) == SelectSeq(CustomerAgg(view), LAMBDA g : g.Order_ID = 1)

\* fashion_dashboard.py: groupby(['Customer_ID','Payment_Method'])
\*   .sum(numeric_only=True).reset_index()
df_payment(view) ==
  LET order == Cross(SortedIds(Column(view, "Customer_ID")), PaymentOrder)
      ks == SelectSeq(order, LAMBDA k : \E i \in DOMAIN view :
                 view[i].Customer_ID = k[1] /\ view[i].Payment_Method = k[2])
  IN [i \in 1..Len(ks) |->
        LET g == SelectSeq(view, LAMBDA r :
                   r.Customer_ID = ks[i][1] /\ r.Payment_Method = ks[i][2])
        IN [Customer_ID |-> ks[i][1], Payment_Method |-> ks[i][2],
            Quantity |-> SumField(g, "Quantity"),
            Revenue |-> SumField(g, "Revenue"),
            Profit |-> SumField(g, "Profit")]]

\* dashboard.py, second script: groupby(['Customer_ID','Product',
\*   'Payment_Method']).sum(numeric_only=True).reset_index()
brand_df_payment(view) ==
  LET order == Cross(Cross(SortedIds(Column(view, "Customer_ID")), KeyOrder),
                     PaymentOrder)
      ks == SelectSeq(order, LAMBDA k : \E i \in DOMAIN view :
                 /\ view[i].Customer_ID = k[1][1]
                 /\ view[i].Product = k[1][2]
                 /\ view[i].Payment_Method = k[2])
  IN [i \in 1..Len(ks) |->
        LET g == SelectSeq(view, LAMBDA r :
                   /\ r.Customer_ID = ks[i][1][1]
                   /\ r.Product = ks[i][1][2]
                   /\ r.Payment_Method = ks[i][2])
        IN [Customer_ID |-> ks[i][1][1], Product |-> ks[i][1][2],
            Payment_Method |-> ks[i][2],
            Quantity |-> SumField(g, "Quantity"),
            Revenue |-> SumField(g, "Revenue"),
            Profit |-> SumField(g, "Profit")]]

\* dashboard.py, second script: groupby([idcol, 'Product'])
\*   .agg({'Profit':'sum','Revenue':'sum'}).reset_index()
\* (df_profitable by Order_ID, df_highest_rev by Customer_ID)
ByIdAndProduct(view, idcol) ==
  LET order == Cross(SortedIds(Column(view, idcol)), KeyOrder)
      ks == SelectSeq(order, LAMBDA k : \E i \in DOMAIN view :
                 view[i][idcol] = k[1] /\ view[i].Product = k[2])
  IN [i \in 1..Len(ks) |->
        LET g == SelectSeq(view, LAMBDA r :
                   r[idcol] = ks[i][1] /\ r.Product = ks[i][2])
        IN [id |-> ks[i][1], Product |-> ks[i][2],
            Profit |-> SumField(g, "Profit"),
            Revenue |-> SumField(g, "Revenue")]]

\* dashboard.py, second script: one group per (Customer_ID, Customer_Name,
\* City) present in the view, then the groups with one distinct order
brand_df_one_timer(view) ==
  LET order == Cross(Cross(SortedIds(Column(view, "Customer_ID")), NameOrder),
                     KeyOrder)
      ks == SelectSeq(order, LAMBDA k : \E i \in DOMAIN view :
                 /\ view[i].Customer_ID = k[1][1]
                 /\ view[i].Customer_Name = k[1][2]
                 /\ view[i].City = k[2])
      agg == [i \in 1..Len(ks) |->
                LET g == SelectSeq(view, LAMBDA r :
                           /\ r.Customer_ID = ks[i][1][1]
                           /\ r.Customer_Name = ks[i][1][2]
                           /\ r.City = ks[i][2])
                IN [Customer_ID |-> ks[i][1][1], Customer_Name |-> ks[i][1][2],
                    City |-> ks[i][2],
                    Profit |-> SumField(g, "Profit"),
                    Quantity |-> SumField(g, "Quantity"),
                    Order_ID |-> Nunique(g, "Order_ID")]]
  IN SelectSeq(agg, LAMBDA g : g.Order_ID = 1)

\* ------------------------------------------------------------ script runs
\* What one run of a script leaves on the page.  filtered says whether the
\* run got as far as a filtered view, warning whether "No data available for
\* the selected filters." was shown, kpis whether the KPI block was computed,
\* unavailable whether "Dataset not found" was shown, exports the download
\* buttons that were rendered.  A KPI a script does not compute stays 0.
\* The table of a missing spreadsheet is the empty sequence: pd.DataFrame()
\* has no rows and no columns.
NoKpi ==
  [total_revenue |-> 0, total_orders |-> 0, aov |-> Quot(0, 1), total_profit |-> 0,
   cancel_return |-> 0, total_quantity |-> 0, unique_customers |-> 0,
   unique_products |-> 0]

NoRun ==
  [app |-> "", error |-> "", filtered |-> FALSE, view |-> <<>>, warning |-> FALSE,
   kpis |-> FALSE, kpi |-> NoKpi, charts |-> <<>>, rankings |-> <<>>,
   unavailable |-> FALSE, exports |-> <<>>]


Failed(app, err) == [NoRun EXCEPT !.app = app, !.error = err]

\* load_data of fashion_dashboard.py and of the second script of dashboard.py
\* reports the missing file and hands back an empty frame; the script goes
\* on and the date mask then asks the frame for its 'Date' column
Unavailable(app) == [Failed(app, "KeyError") EXCEPT !.unavailable = TRUE]

Warned(app) == [NoRun EXCEPT !.app = app, !.filtered = TRUE, !.warning = TRUE]

\* the same buttons with the full-dataset sheet written from the view
FashionExportsOfView(rows, view) ==
  IF HasColumn(view, "Payment_Method")
    THEN <<Export("full_dataset", view),
           Export("payment_method_customers", df_payment(view)),
           Export("loyal_customers", df_loyal(view)),
           Export("one_timer_customers", df_one_timer(view))>>
    ELSE <<Export("full_dataset", view)>>

\* the download buttons of fashion_dashboard.py, in the order they are
\* rendered.  excel_payment is assigned only when the view has a
\* Payment_Method column; without it the second button raises NameError and
\* the buttons after it are not reached.
FashionExports(rows, view) ==
  IF HasColumn(view, "Payment_Method")
    THEN <<Export("full_dataset", rows),
           Export("payment_method_customers", df_payment(view)),
           Export("loyal_customers", df_loyal(view)),
           Export("one_timer_customers", df_one_timer(view))>>
    ELSE <<Export("full_dataset", rows)>>

\* the download buttons of the second script of dashboard.py
BrandExports(view) ==
  IF HasColumn(view, "Payment_Method")
    THEN <<Export("most_profitable_products", ByIdAndProduct(view, "Order_ID")),
           Export("payment_method_customers", brand_df_payment(view)),
           Export("highest_revenue_customers", ByIdAndProduct(view, "Customer_ID")),
           Export("one_time_customers", brand_df_one_timer(view))>>
    ELSE <<Export("most_profitable_products", ByIdAndProduct(view, "Order_ID"))>>

Exports(app, rows, view) ==
  IF app = "brand" THEN BrandExports(view) ELSE FashionExports(rows, view)

\* the exception the download buttons end the run with, if any
ExportError(view) ==
  IF HasColumn(view, "Payment_Method") THEN "" ELSE "NameError"

\* app.py --------------------------------------------------------------
AppKpi(view) ==
  [NoKpi EXCEPT !.total_revenue = SumField(view, "Revenue"),
                !.total_orders = Nunique(view, "Order_ID"),
                !.aov = AovPerOrder(view),
                !.total_profit = SumField(view, "Profit"),
                !.cancel_return = CancelReturnOrders(view, AppCancelSet),
                !.total_quantity = SumField(view, "Quantity"),
                !.unique_customers = Nunique(view, "Customer_ID")]

AppCharts(view) ==
  <<Chart("rev_platform", "Platform", "Revenue", GroupSum(view, "Platform", "Revenue")),
    Chart("profit_platform", "Platform", "Profit", GroupSum(view, "Platform", "Profit")),
    Chart("rev_trend", "Date", "Revenue", TrendSum(view, "Revenue")),
    Chart("bubble_data", "Platform,SKU", "Revenue", CrossSum(view, "Platform", "SKU", "Revenue")),
    Chart("bubble_data", "Platform,SKU", "Quantity", CrossSum(view, "Platform", "SKU", "Quantity"))>>

\* the pages a run of app.py can end with
AppPage(rows, in) ==
  LET d == IndexedDates(in.date_range)
      view == filtered_data(rows, d.start, d.end, in)
  IN IF rows = <<>> THEN {Failed("app", "FileNotFoundError")}
     ELSE IF SidebarFails(rows) THEN {Failed("app", "TypeError")}
     ELSE IF d.error # "" THEN {Failed("app", d.error)}
     ELSE IF view = <<>> THEN {Warned("app")}
     ELSE {[NoRun EXCEPT
              !.app = "app", !.filtered = TRUE, !.view = view,
              !.kpis = TRUE, !.kpi = AppKpi(view),
              !.charts = AppCharts(view),
              !.exports = <<Export("filtered_fashion_data", view)>>,
              !.rankings =
                <<Ranking("top_products", "Product", "Revenue", FixedTop, tp),
                  Ranking("top_cities", "City", "Revenue", FixedTop, tc)>>] :
            tp \in TopN(view, "Product", "Revenue", FixedTop),
            tc \in TopN(view, "City", "Revenue", FixedTop)}

RunApp ==
  /\ out' \in AppPage(data, inputs)
  /\ UNCHANGED <<data, inputs>>

\* fashion_dashboard.py and the second script of dashboard.py -------------
FashionKpi(view) ==
  [NoKpi EXCEPT !.total_revenue = SumField(view, "Revenue"),
                !.total_orders = Nunique(view, "Order_ID"),
                !.aov = AovPerOrder(view),
                !.total_profit = SumField(view, "Profit"),
                !.total_quantity = SumField(view, "Quantity"),
                !.unique_customers = Nunique(view, "Customer_ID"),
                !.cancel_return = CancelReturnRows(view, FashionCancelSet)]

FashionCharts(view) ==
  AppCharts(view) \o
  <<Chart("pie_qty", "Platform", "Quantity", GroupSum(view, "Platform", "Quantity"))>>

FashionPage(app, rows, in) ==
  LET d == UnpackedDates(in.date_range, Len(rows))
      view == filtered_data(rows, d.start, d.end, in)
      n == in.top_n
  IN IF rows = <<>> THEN {Unavailable(app)}
     ELSE IF SidebarFails(rows) THEN {Failed(app, "TypeError")}
     ELSE IF d.error # "" THEN {Failed(app, d.error)}
     ELSE IF view = <<>> THEN {Warned(app)}
     ELSE {[NoRun EXCEPT
              !.app = app, !.filtered = TRUE, !.view = view,
              !.kpis = TRUE, !.kpi = FashionKpi(view),
              !.charts = FashionCharts(view),
              !.error = ExportError(view),
              !.exports = Exports(app, rows, view),
              !.rankings =
                <<Ranking("top_products", "Product", "Revenue", n, tp),
                  Ranking("top_cities", "City", "Revenue", n, tc),
                  Ranking("state_gmv", "State", "Revenue", n, sg)>>] :
            tp \in TopN(view, "Product", "Revenue", n),
            tc \in TopN(view, "City", "Revenue", n),
            sg \in TopN(view, "State", "Revenue", n)}

RunFashion ==
  /\ out' \in FashionPage("fashion", data, inputs)
  /\ UNCHANGED <<data, inputs>>

RunBrand ==
  /\ out' \in FashionPage("brand", data, inputs)
  /\ UNCHANGED <<data, inputs>>

\* dashboard.py, first script ---------------------------------------------
DashboardKpi(view) ==
  [NoKpi EXCEPT !.total_revenue = SumField(view, "Revenue"),
                !.aov = AovPerRow(view),
                !.total_profit = SumField(view, "Profit"),
                !.cancel_return = CancelReturnRows(view, DashboardCancelSet),
                !.total_quantity = SumField(view, "Quantity"),
                !.unique_products = NuniqueKeys(view, "Product")]

DashboardCharts(view) ==
  <<Chart("rev_profit_df", "Product", "Revenue", GroupSum(view, "Product", "Revenue")),
    Chart("rev_profit_df", "Product", "Profit", GroupSum(view, "Product", "Profit")),
    Chart("platform_summary", "Platform", "Revenue", GroupSum(view, "Platform", "Revenue")),
    Chart("platform_summary", "Platform", "Quantity", GroupSum(view, "Platform", "Quantity")),
    Chart("revenue_trend_df", "Date", "Revenue", TrendSum(view, "Revenue"))>>

DashboardPage(rows, in) ==
  LET d == IndexedDates(in.date_range)
      view == filtered_df(rows, d.start, d.end, in.selected_platform_sidebar, in)
  IN IF rows = <<>> THEN Failed("dashboard", "FileNotFoundError")
     ELSE IF d.error # "" THEN Failed("dashboard", d.error)
     ELSE [NoRun EXCEPT
             !.app = "dashboard", !.filtered = TRUE, !.view = view,
             !.kpis = TRUE, !.kpi = DashboardKpi(view),
             !.charts = DashboardCharts(view),
             !.rankings =
               <<Ranking("top_products_df", "Product", "Revenue", FixedTop,
                         Nlargest(GroupSum(view, "Product", "Revenue"), FixedTop)),
                 Ranking("top_cities_df", "City", "Revenue", FixedTop,
                         Nlargest(GroupSum(view, "City", "Revenue"), FixedTop))>>]

RunDashboard ==
  /\ out' = DashboardPage(data, inputs)
  /\ UNCHANGED <<data, inputs>>

Next == RunApp \/ RunFashion \/ RunDashboard \/ RunBrand

\* ------------------------------------------------------- loaded datasets
Row0 ==
  [Order_ID |-> 1, Customer_ID |-> 1, Date |-> <<ToDatetime(1)>>,
   Platform |-> "Amazon", State |-> "S1", City |-> "C1", Product |-> "P1",
   SKU |-> "K1", Quantity |-> <<1>>, Revenue |-> <<1>>, Profit |-> <<1>>,
   Delivery_Status |-> "Delivered", Customer_Name |-> "N1",
   Payment_Method |-> "UPI"]

SeqsUpTo(S, n) == UNION {[1..k -> S] : k \in 1..n}

\* a loaded file has at least one dated row, so that Date.min() and
\* Date.max(), the default of the date input, are dates
Loaded(S, n) == {rows \in SeqsUpTo(S, n) : ValidTs(rows) # {}}

Days == 1..MaxDay

\* what st.date_input hands back for a range: the pair, or a one-element
\* tuple while the second date is not picked yet
DateInputs ==
  {dr \in Days \X Days : dr[1] <= dr[2]} \cup {<<d>> : d \in Days}

PlatformChoices == Range(platform_options) \cup {All}

TopNs == {n \in SliderMin..SliderMax : n <= MaxTopN \/ n = SliderDefault}

DefaultInputs(rows) ==
  [date_range |-> DefaultRange(rows),
   selected_platform |-> {All}, selected_state |-> {All},
   selected_city |-> {All}, selected_product |-> {All},
   selected_platform_top |-> "Amazon", selected_platform_sidebar |-> All,
   top_n |-> SliderDefault]

\* the widget values after at most k of the categorical widgets were changed
RECURSIVE EditedInputs(_, _)
EditedInputs(rows, k) ==
  IF k = 0 THEN {DefaultInputs(rows)}
  ELSE LET prev == EditedInputs(rows, k - 1)
       IN prev
          \cup {[in EXCEPT !.selected_platform = v] :
                  in \in prev, v \in SUBSET Options(rows, "Platform")}
          \cup {[in EXCEPT !.selected_state = v] :
                  in \in prev, v \in SUBSET Options(rows, "State")}
          \cup {[in EXCEPT !.selected_city = v] :
                  in \in prev, v \in SUBSET Options(rows, "City")}
          \cup {[in EXCEPT !.selected_product = v] :
                  in \in prev, v \in SUBSET Options(rows, "Product")}
          \cup {[in EXCEPT !.selected_platform_top = v] :
                  in \in prev, v \in PlatformChoices}
          \cup {[in EXCEPT !.selected_platform_sidebar = v] :
                  in \in prev, v \in PlatformChoices}

\* the widget values a user can reach on a page built from rows
FilterInputs(rows) ==
  {[in EXCEPT !.date_range = dr] :
     in \in EditedInputs(rows, MaxEdited), dr \in DateInputs}

\* rows that differ in date and platform
FilterRows ==
  {[Row0 EXCEPT !.Date = d, !.Platform = p] :
     d \in {NaT, <<ToDatetime(1)>>, <<ToDatetime(MaxDay) + 1>>},
     p \in {"Amazon", "Myntra"}}

InitFilter ==
  /\ data \in Loaded(FilterRows, MaxFilterRows)
  /\ inputs \in FilterInputs(data)
  /\ out = NoRun

SpecFilter == InitFilter /\ [][Next]_vars

\* rows that differ in order, revenue and delivery status, one row with a
\* status spelled as app.py expects it, and one row without a SKU
SummaryRows ==
  {[Row0 EXCEPT !.Order_ID = o, !.Revenue = v, !.Delivery_Status = st] :
     o \in {1, 2}, v \in {NaN, <<1>>, <<2>>}, st \in {"Delivered", "Returned"}}
  \cup {[Row0 EXCEPT !.Delivery_Status = "Return"],
        [Row0 EXCEPT !.SKU = NaNKey, !.Order_ID = 2]}

SummaryInputs(rows) ==
  {[DefaultInputs(rows) EXCEPT !.date_range = dr] : dr \in DateInputs}

InitSummary ==
  /\ data \in Loaded(SummaryRows, MaxFilterRows)
  /\ inputs \in SummaryInputs(data)
  /\ out = NoRun

SpecSummary == InitSummary /\ [][Next]_vars

\* rows that differ in product and revenue (the city follows the product)
\* and one row without a product
RankingRows ==
  {[Row0 EXCEPT !.Product = p, !.Revenue = <<v>>] :
     p \in {"P1", "P2"}, v \in {1, 2}}
  \cup {[Row0 EXCEPT !.Product = "P3", !.City = "C2"],
        [Row0 EXCEPT !.Product = NaNKey]}

RankingInputs(rows) ==
  {[DefaultInputs(rows) EXCEPT !.top_n = n] : n \in TopNs}

InitRanking ==
  /\ data \in Loaded(RankingRows, MaxRows)
  /\ inputs \in RankingInputs(data)
  /\ out = NoRun

SpecRanking == InitRanking /\ [][Next]_vars

\* a table loaded from a spreadsheet that has no column f
WithoutColumn(rows, f) ==
  [i \in DOMAIN rows |-> [g \in DOMAIN rows[i] \ {f} |-> rows[i][g]]]

\* rows that differ in customer and order, one order of customer 1 placed
\* from another city, and one placed on the last day
ExportRows ==
  {[Row0 EXCEPT !.Customer_ID = c, !.Order_ID = o] : c \in {1, 2}, o \in {1, 2}}
  \cup {[Row0 EXCEPT !.Order_ID = 2, !.City = "C2"],
        [Row0 EXCEPT !.Order_ID = 2, !.Date = <<ToDatetime(MaxDay)>>]}

\* the spreadsheet with or without its optional Payment_Method column, or
\* no spreadsheet at all
ExportData ==
  Loaded(ExportRows, MaxRows)
  \cup {WithoutColumn(rows, "Payment_Method") :
          rows \in Loaded(ExportRows, MaxFilterRows)}
  \cup {<<>>}

\* without a table the date input defaults to today twice and every
\* multiselect offers "All" alone
ExportInputs(rows) ==
  IF rows = <<>>
    THEN {[DefaultInputs(<<Row0>>) EXCEPT !.date_range = <<d, d>>] : d \in Days}
    ELSE {DefaultInputs(rows), [DefaultInputs(rows) EXCEPT !.date_range = <<1, 1>>]}

InitExport ==
  /\ data \in ExportData
  /\ inputs \in ExportInputs(data)
  /\ out = NoRun

SpecExport == InitExport /\ [][Next]_vars

\* ======================================================================
\* What the specification says of a run, stated over the page it left.
\* ======================================================================
Ran == out.app # ""

\* the selection of a dimension as the filter spec holds it: "all values"
\* when the sentinel is selected or nothing is
AllValues(selected) == All \in selected \/ selected = {}

Accepts(selected, x) == AllValues(selected) \/ x \in selected

\* the platform selection of a script: the sidebar selector of the first
\* script of dashboard.py, the multiselect of the others
PlatformSelection(app, in) ==
  IF app = "dashboard" THEN {in.selected_platform_sidebar} ELSE in.selected_platform

RangeStart(dr) == dr[1]

RangeEnd(dr) == dr[Len(dr)]

\* start <= date <= end AND, per dimension, all values or a selected value
Satisfies(r, app, in) ==
  /\ r.Date # NaT
  /\ ToDatetime(RangeStart(in.date_range)) <= r.Date[1]
  /\ r.Date[1] <= ToDatetime(RangeEnd(in.date_range))
  /\ Accepts(PlatformSelection(app, in), r.Platform)
  /\ Accepts(in.selected_state, r.State)
  /\ Accepts(in.selected_city, r.City)
  /\ Accepts(in.selected_product, r.Product)

\* a filter spec proper: every dimension is "all values" or an explicit,
\* non-empty selection
ExplicitOrAll(in) ==
  /\ in.selected_platform # {}
  /\ in.selected_state # {}
  /\ in.selected_city # {}
  /\ in.selected_product # {}

\* C1: the filtered view is the subsequence of the dataset, in the dataset's
\* order, of exactly the records that satisfy the conjunctive predicate of
\* the filter spec (date within the range and, per dimension, all values or
\* a selected value).
C1_FilterIsExactSubsequence ==
  (Ran /\ out.filtered /\ ExplicitOrAll(inputs)) =>
     out.view = SelectSeq(data, LAMBDA r : Satisfies(r, out.app, inputs))

IsAllValues(app, in) ==
  /\ All \in PlatformSelection(app, in)
  /\ All \in in.selected_state
  /\ All \in in.selected_city
  /\ All \in in.selected_product

\* C2: with "All" on every dimension and the default date range (minimum to
\* maximum date of the dataset) the filtered view is the whole dataset.
C2_AllValuesFullRangeIsIdentity ==
  (Ran /\ IsAllValues(out.app, inputs) /\ inputs.date_range = DefaultRange(data)) =>
     (out.filtered /\ out.view = data)

\* the pages a script can end with on given widget values
PagesOf(app, rows, in) ==
  CASE app = "app" -> AppPage(rows, in)
    [] app = "fashion" -> FashionPage("fashion", rows, in)
    [] app = "brand" -> FashionPage("brand", rows, in)
    [] app = "dashboard" -> {DashboardPage(rows, in)}

SameViewWith(in) ==
  \E page \in PagesOf(out.app, data, in) :
     /\ page.error = out.error
     /\ page.filtered = out.filtered
     /\ page.view = out.view

\* C3: an empty selection on a dimension gives the same filtered view as
\* "All" on that dimension.
C3_EmptySelectionIsAll ==
  Ran =>
    /\ (out.app # "dashboard" /\ inputs.selected_platform = {}) =>
          SameViewWith([inputs EXCEPT !.selected_platform = {All}])
    /\ inputs.selected_state = {} =>
          SameViewWith([inputs EXCEPT !.selected_state = {All}])
    /\ inputs.selected_city = {} =>
          SameViewWith([inputs EXCEPT !.selected_city = {All}])
    /\ inputs.selected_product = {} =>
          SameViewWith([inputs EXCEPT !.selected_product = {All}])

SingleDate == Len(inputs.date_range) = 1

CollapsedRange == <<inputs.date_range[1], inputs.date_range[1]>>

\* C4: when the date input supplies one date only, the run does not fail and
\* filters as with the range from that date to that date.
C4_SingleDateCollapses ==
  (Ran /\ SingleDate) =>
     /\ out.error = ""
     /\ out.filtered
     /\ \E page \in PagesOf(out.app, data, [inputs EXCEPT !.date_range = CollapsedRange]) :
           page.filtered /\ page.view = out.view

EmptyView == Ran /\ out.filtered /\ out.view = <<>>

\* C5: on an empty filtered view every KPI is 0 and the "no data for the
\* selection" flag is raised.
C5_EmptyViewZeroKpisAndFlag ==
  EmptyView =>
     /\ out.kpi = NoKpi
     /\ out.warning

OrdersOf(view) == {view[i].Order_ID : i \in DOMAIN view}

\* C6: average order value is total revenue over the number of distinct
\* order identifiers of the view, and 0 when there is none.
C6_AovPerDistinctOrder ==
  (Ran /\ out.kpis) =>
     IF OrdersOf(out.view) = {}
       THEN out.kpi.aov.num = 0
       ELSE out.kpi.aov.num * Cardinality(OrdersOf(out.view))
              = SumField(out.view, "Revenue") * out.kpi.aov.den

CancelSetOf(app) ==
  CASE app = "app" -> AppCancelSet
    [] app \in {"fashion", "brand"} -> FashionCancelSet
    [] app = "dashboard" -> DashboardCancelSet

CancelledOrders(view, statuses) ==
  {view[i].Order_ID : i \in {j \in DOMAIN view : view[j].Delivery_Status \in statuses}}

\* C7: the cancel/return KPI is the number of distinct orders that have a
\* record whose delivery status is in the script's cancel/return set.
C7_CancelReturnCountsOrders ==
  (Ran /\ out.kpis) =>
     out.kpi.cancel_return = Cardinality(CancelledOrders(out.view, CancelSetOf(out.app)))

\* the group keys of a view: the values of the group-by field that are present
KeysOf(view, by) == Column(view, by) \ {NaNKey}

GroupTotal(view, by, k, f) == SumField(SelectSeq(view, LAMBDA r : r[by] = k), f)

RankedKeys(rk) == {rk.rows[i].key : i \in DOMAIN rk.rows}

RankingOk(view, rk) ==
  /\ rk.n \in SliderMin..SliderMax
  /\ Len(rk.rows) = Min2(rk.n, Cardinality(KeysOf(view, rk.by)))
  /\ \A i, j \in DOMAIN rk.rows : i < j => rk.rows[i].sum >= rk.rows[j].sum
  /\ \A i, j \in DOMAIN rk.rows : i # j => rk.rows[i].key # rk.rows[j].key
  /\ \A i \in DOMAIN rk.rows :
        /\ rk.rows[i].key \in KeysOf(view, rk.by)
        /\ rk.rows[i].sum = GroupTotal(view, rk.by, rk.rows[i].key, rk.field)
  /\ \A k \in KeysOf(view, rk.by) \ RankedKeys(rk) :
        \A i \in DOMAIN rk.rows :
           GroupTotal(view, rk.by, k, rk.field) <= rk.rows[i].sum

\* C8: a top-N ranking has min(n, number of groups) entries with n in 1..20,
\* its sums do not increase, every entry is a group of the view with that
\* group's sum, and no group left out has a larger sum than a group kept.
C8_TopNRanking ==
  (Ran /\ out.filtered) =>
     \A x \in DOMAIN out.rankings : RankingOk(out.view, out.rankings[x])

\* a ranking that had to drop a group, with two groups kept in sum order
C8_Witness ==
  /\ Ran
  /\ \E x \in DOMAIN out.rankings :
        LET rk == out.rankings[x]
        IN /\ Cardinality(KeysOf(out.view, rk.by)) > rk.n
           /\ Len(rk.rows) >= 2
           /\ rk.rows[1].sum > rk.rows[2].sum

FirstSeen(view, by, k) ==
  SetMin({i \in DOMAIN view : view[i][by] = k})

\* C9: groups with equal sums are ranked in the order in which they first
\* occur in the view, and truncation keeps the earliest of tied groups.
C9_TiesInFirstSeenOrder ==
  (Ran /\ out.filtered) =>
     \A x \in DOMAIN out.rankings :
        LET rk == out.rankings[x]
        IN /\ \A i, j \in DOMAIN rk.rows :
                 (i < j /\ rk.rows[i].sum = rk.rows[j].sum) =>
                    FirstSeen(out.view, rk.by, rk.rows[i].key)
                      < FirstSeen(out.view, rk.by, rk.rows[j].key)
           /\ \A k \in KeysOf(out.view, rk.by) \ RankedKeys(rk) :
                 \A i \in DOMAIN rk.rows :
                    GroupTotal(out.view, rk.by, k, rk.field) = rk.rows[i].sum =>
                       FirstSeen(out.view, rk.by, rk.rows[i].key)
                         < FirstSeen(out.view, rk.by, k)

RECURSIVE SumGroups(_)
SumGroups(g) == IF g = <<>> THEN 0 ELSE Head(g).sum + SumGroups(Tail(g))

NoMissing(view, f) == \A i \in DOMAIN view : view[i][f] # NaN

\* C10: when the summed field has no missing value, the group sums of every
\* grouped sum add up to the total of the field over the view.
C10_GroupSumsConserveTotal ==
  (Ran /\ out.filtered) =>
     \A x \in DOMAIN out.charts :
        LET c == out.charts[x]
        IN NoMissing(out.view, c.field) =>
              SumGroups(c.groups) = SumField(out.view, c.field)

\* ----------------------------------------------------------------------
\* C12  When the spreadsheet is missing, a run of a script whose load_data
\* checks for the file ends in a distinct "dataset unavailable" state: the
\* condition is reported, the run does not go on into the filter step, the
\* "No data available for the selected filters." outcome is not shown, and
\* no unhandled error ends the run.
FileMissing == data = <<>>

C12_MissingFileIsUnavailable ==
  (Ran /\ FileMissing /\ out.app \in {"fashion", "brand"}) =>
    /\ out.unavailable
    /\ ~out.filtered
    /\ ~out.warning
    /\ out.error = ""

\* ----------------------------------------------------------------------
\* C13  When the dataset has no payment-method column and the filtered view
\* is not empty, the payment-method breakdown is absent and everything else
\* is still produced: the KPIs, the charts and the customer exports of the
\* script (loyal and one-time customers); the run does not fail.
ExportNames == {out.exports[i].name : i \in DOMAIN out.exports}

NoPaymentColumn == data # <<>> /\ ~HasColumn(data, "Payment_Method")

CustomerExportsOf(app) ==
  IF app = "brand" THEN {"one_time_customers"}
  ELSE {"loyal_customers", "one_timer_customers"}

C13_NoPaymentColumnOnlyDropsBreakdown ==
  (Ran /\ out.app \in {"fashion", "brand"} /\ NoPaymentColumn /\ out.view # <<>>) =>
    /\ out.error = ""
    /\ "payment_method_customers" \notin ExportNames
    /\ out.kpis
    /\ out.charts # <<>>
    /\ CustomerExportsOf(out.app) \subseteq ExportNames

\* ----------------------------------------------------------------------
\* C14  The one-time-customer export holds exactly the customers with
\* exactly one distinct order identifier in the view, each at most once; a
\* customer with two or more distinct orders never appears in it, whatever
\* the cities and names on those orders.
OneTimeExportNames == {"one_timer_customers", "one_time_customers"}

OneTimeExport ==
  out.exports[CHOOSE i \in DOMAIN out.exports : out.exports[i].name \in OneTimeExportNames].rows

HasOneTimeExport == \E i \in DOMAIN out.exports : out.exports[i].name \in OneTimeExportNames

CustomersOf(view) == {view[i].Customer_ID : i \in DOMAIN view}

DistinctOrders(view, c) ==
  Cardinality({view[i].Order_ID : i \in {j \in DOMAIN view : view[j].Customer_ID = c}})

C14_OneTimeExportIsExact ==
  (Ran /\ HasOneTimeExport) =>
    /\ \A c \in CustomersOf(out.view) :
         DistinctOrders(out.view, c) = 1 <=>
           \E i \in DOMAIN OneTimeExport : OneTimeExport[i].Customer_ID = c
    /\ \A i, j \in DOMAIN OneTimeExport :
         OneTimeExport[i].Customer_ID = OneTimeExport[j].Customer_ID => i = j

\* ----------------------------------------------------------------------
\* C18  In fashion_dashboard.py, for every non-empty filtered view, the
\* loyal frame (more than one distinct order) and the one-time frame
\* (exactly one distinct order) are disjoint and every customer identifier
\* of the view is in exactly one of them, once; neither holds a customer
\* that is not in the view; and the two download buttons, when the run
\* reaches them, carry these frames.
ExportRowsOf(name) ==
  out.exports[CHOOSE i \in DOMAIN out.exports : out.exports[i].name = name].rows

Occurrences(rows, c) == Cardinality({i \in DOMAIN rows : rows[i].Customer_ID = c})

FashionView == Ran /\ out.app = "fashion" /\ out.view # <<>>

BothCustomerExports ==
  {"loyal_customers", "one_timer_customers"} \subseteq ExportNames

EffectivePlatform(in) ==
  IF in.selected_platform_sidebar # All THEN in.selected_platform_sidebar
  ELSE in.selected_platform_top

C17_TopSelectorFiltersUnderSidebarAll ==
  (Ran /\ out.app = "dashboard" /\ out.filtered /\ EffectivePlatform(inputs) # All) =>
    \A i \in DOMAIN out.view : out.view[i].Platform = EffectivePlatform(inputs)

\* ----------------------------------------------------------------------
\* C16  No run changes the loaded dataset: after any run the dataset has
\* the records, in the order and with the values, it had before the run,
\* and the "full dataset" export of that run is this dataset and not the
\* filtered view.
HasFullExport == "full_dataset" \in ExportNames

C16_SourceDatasetUntouched ==
  [][/\ data' = data
     /\ HasFullExport' => ExportRowsOf("full_dataset")' = data]_vars

\* C16: a run that filtered some records out and offered the full export
C16_Witness ==
  /\ Ran
  /\ HasFullExport
  /\ out.view # <<>>
  /\ Len(out.view) < Len(data)

====
